---- MODULE Spec2Model ----
(***************************************************************************)
(* Model of the Passkeys class (src/unnamed/part_000): createPasskey,      *)
(* authenticateWithPasskey, authenticateWithPasskeyAutofill, requestOtp,   *)
(* confirmTransaction and the private invokePasskeyApi wrapper.            *)
(*                                                                         *)
(* Every invocation is an async function: its synchronous segments run     *)
(* atomically and each `await` is a point where another invocation on the  *)
(* same Passkeys instance may run.  One action = the segment of code that  *)
(* runs when one awaited promise settles (resolves or rejects).            *)
(*                                                                         *)
(* Strings that the code tests for emptiness and that carry structure      *)
(* (tokens, user ids) are modelled as sequences, "" being << >>.           *)
(***************************************************************************)
EXTENDS Naturals, Sequences, FiniteSets

(* Callers of the one Passkeys instance.  A caller makes its invocations    *)
(* one after the other; invocations of different callers overlap.          *)
Callers == {"p1"}

(* Two callers on the same app id: one registers, the other authenticates. *)
Registering == "p1"

Authenticating == "p2"

(* Usernames a caller may pass. *)
Usernames == {"alice", "bob"}

(* Number of distinct device ids the backend may hand out. *)
NumDeviceIds == 2

(* Device ids the backend hands out; 0 models the absent/empty device id. *)
DeviceIds == 1..NumDeviceIds

NoDeviceId == 0

(* The empty string, for tokens and user ids. *)
Empty == << >>

(* A JWT access token issued by the backend for user u: header.payload.sig *)
Jwt(u) == <<"hdr", [username |-> u], "sig">>

(* parseJwt: decodes the payload segment of the token. *)
parseJwt(token) == token[2]

(* The user id the backend knows user u by. *)
UserId(u) == <<"uid", u>>

(* The session the backend opens for the init call of caller p's invocation: *)
(* opaque to the client, and distinct for invocations that overlap.          *)
Session(p) == <<"session", p>>

VARIABLES
    jwtCookie,    \* the session token cookie (this.session)
    deviceStore,  \* the device id persisted for the configured app id
    proc          \* per caller: the invocation in flight (locals, position, history)

vars == <<jwtCookie, deviceStore, proc>>

-----------------------------------------------------------------------------
(* Errors.  isError is the outcome of `error instanceof Error`. *)

NoError == [name |-> "none", at |-> "none", isError |-> FALSE]

(* The generated REST client rejects with an ApiError (an Error). *)
ApiError(at) == [name |-> "ApiError", at |-> at, isError |-> TRUE]

(* WebAuthnHelper rejects with a PasskeyError (an Error). *)
PasskeyError(at) == [name |-> "PasskeyError", at |-> at, isError |-> TRUE]

NO_LOGIN_OPTIONS_ERROR ==
    [name |-> "NO_LOGIN_OPTIONS_ERROR", at |-> "dispatch", isError |-> TRUE]

(* What a user callback may throw: an Error, or any other value. *)
CallbackThrows(at) ==
    {[name |-> "thrown", at |-> at, isError |-> b] : b \in BOOLEAN}

-----------------------------------------------------------------------------
(* Results. *)

NoResult ==
    [kind |-> "none", token |-> Empty, userId |-> Empty,
     isAuthenticated |-> FALSE, isFallback |-> FALSE]

(* The JWT response body of regComplete / authComplete. *)
JwtResponse(u, d) == [jwtAccess |-> Jwt(u), userId |-> UserId(u), deviceId |-> d]

NoResponse == [jwtAccess |-> Empty, userId |-> Empty, deviceId |-> NoDeviceId]

(* toAuthResult(jwt, isAuthenticated = true, isFallback = false) *)
toAuthResult(jwt, isAuthenticated, isFallback) ==
    [kind |-> "auth", token |-> jwt.jwtAccess, userId |-> jwt.userId,
     isAuthenticated |-> isAuthenticated, isFallback |-> isFallback]

(* The Otp returned by authAuthCodeRequest. *)
OtpResult == [NoResult EXCEPT !.kind = "otp"]

(* The TxComplete returned by txTxComplete; it includes a new access token. *)
TxResult(u) == [NoResult EXCEPT !.kind = "tx", !.token = Jwt(u)]

-----------------------------------------------------------------------------
(* Session and device store. *)

(* this.session.getToken(options): the passed token, else the stored one. *)
getToken(authzToken, cookie) == IF authzToken # Empty THEN authzToken ELSE cookie

(* DeviceStore.persistDeviceId(appId, deviceId): nothing to store, no write. *)
persistDeviceId(stored, deviceId) == IF deviceId = NoDeviceId THEN stored ELSE deviceId

-----------------------------------------------------------------------------
(* Fragments of the methods, as operators. *)

(* The guard left out: the resolved token is sent whatever its username. *)
UnguardedToken(token, username) == token

(* createPasskey, "guard against username mismatch" *)
GuardedToken(token, username) ==
    IF token # Empty
    THEN IF parseJwt(token).username # username THEN Empty ELSE token
    ELSE token

(* createPasskey: deviceId || regCompleteResponse.deviceId *)
DeviceIdToPersist(deviceId, responseDeviceId) ==
    IF deviceId # NoDeviceId THEN deviceId ELSE responseDeviceId

(* Dispatch with the default case falling through to the fallback branch. *)
DispatchDefaultFallsBack(action) ==
    IF action = "proceed" THEN "proceed" ELSE "fallback"

(* authenticateWithPasskey: switch (authInitResponseBody.action) *)
Dispatch(action) ==
    CASE action = "proceed" -> "proceed"
      [] action = "crossAuth" -> "fallback"
      [] action = "fallback" -> "fallback"
      [] OTHER -> "throw"

(* The catch clause rethrowing without reporting. *)
CatchClauseNeverReports(session, error) == [reports |-> << >>, rethrown |-> error]

(* The catch clause without its `instanceof Error` test. *)
CatchClauseReportsAnything(session, error) ==
    [reports |-> <<[session |-> session, error |-> error]>>, rethrown |-> error]

(* invokePasskeyApi, catch clause: the reports made and the value rethrown. *)
CatchClause(session, error) ==
    [reports |-> IF error.isError THEN <<[session |-> session, error |-> error]>>
                 ELSE << >>,
     rethrown |-> error]

(* Values of `action` the backend may answer authInit with. *)
Actions == {"proceed", "crossAuth", "fallback", "unknown"}

-----------------------------------------------------------------------------
(* The invocation a caller has in flight. *)

Idle ==
    [pc |-> "idle", op |-> "none", caller |-> "none",
     username |-> "", authzArg |-> Empty,
     onSuccess |-> FALSE, onFallback |-> FALSE, autoFill |-> FALSE,
     deviceId |-> NoDeviceId, authzToken |-> Empty,
     session |-> << >>, action |-> "",
     response |-> NoResponse, authResult |-> NoResult,
     result |-> NoResult, thrown |-> NoError, error |-> NoError,
     \* history: what the invocation saw, sent and did
     stored |-> [token |-> Empty, deviceId |-> NoDeviceId],
     resolvedToken |-> Empty, sentAuth |-> Empty, sentSession |-> << >>,
     prevDevice |-> NoDeviceId, writtenDevice |-> NoDeviceId,
     reports |-> << >>, log |-> << >>]

(* A fresh invocation of op, which finds the given token and device id stored. *)
Invocation(op) ==
    [Idle EXCEPT !.op = op, !.stored = [token |-> jwtCookie, deviceId |-> deviceStore]]

Settled(p) == proc[p].pc \in {"idle", "returned", "rejected"}

Log(r, events) == [r EXCEPT !.log = @ \o events]

(* Reading an invocation's history. *)

Count(log, e) == Cardinality({i \in DOMAIN log : log[i] = e})

Has(log, e) == \E i \in DOMAIN log : log[i] = e

(* Every b in the log comes after some a of as. *)
Preceded(log, as, b) ==
    \A j \in DOMAIN log : log[j] = b => \E i \in 1..(j - 1) : log[i] \in as

(* authenticateWithPasskey ran (directly, or under autofill or requestOtp)  *)
(* and authInit answered.                                                   *)
Dispatched(r) == Has(r.log, "authInit:ok")

(* authenticateWithPasskey has returned a result to whoever called it. *)
AuthReturned(r) == r.authResult.kind = "auth"

(* The invocation rejects with err (not inside invokePasskeyApi). *)
Reject(r, err) == [r EXCEPT !.pc = "rejected", !.error = err]

(* fn threw err inside invokePasskeyApi: report, rethrow. *)
Caught(r, err) ==
    LET c == CatchClause(r.session, err)
    IN  [r EXCEPT !.pc = "rejected", !.thrown = err, !.error = c.rethrown,
                  !.reports = @ \o c.reports,
                  !.log = @ \o [i \in 1..Len(c.reports) |-> "reportError"]]

(* authenticateWithPasskey returns res: to its caller's caller, or into     *)
(* requestOtp, which sends the code request with the token of the result.   *)
Return(r, res) ==
    IF r.caller = "requestOtp"
    THEN [r EXCEPT !.pc = "otp_codeRequest", !.authResult = res,
                   !.authzToken = res.token,
                   !.sentAuth = res.token, !.log = @ \o <<"authCodeRequest">>]
    ELSE [r EXCEPT !.pc = "returned", !.authResult = res, !.result = res]

(* Tokens a caller may pass as authzToken. *)
AuthzTokens == {Empty} \cup {Jwt(u) : u \in Usernames}

Init ==
    /\ jwtCookie = Empty
    /\ deviceStore = NoDeviceId
    /\ proc = [p \in Callers |-> Idle]

-----------------------------------------------------------------------------
(* createPasskey *)

(* Called: reads the stored device id, awaits defaultDeviceInfo. *)
CreatePasskey(p, username, authzToken) ==
    /\ Settled(p)
    /\ proc' = [proc EXCEPT ![p] =
                  [Invocation("createPasskey") EXCEPT !.pc = "cp_deviceInfo",
                               !.username = username, !.authzArg = authzToken,
                               !.deviceId = deviceStore]]
    /\ UNCHANGED <<jwtCookie, deviceStore>>

(* Device info resolved: resolves the token, guards it, awaits the trust store. *)
CreatePasskeyToken(p) ==
    /\ proc[p].pc = "cp_deviceInfo"
    /\ LET token == getToken(proc[p].authzArg, jwtCookie)
       IN  proc' = [proc EXCEPT ![p] =
                      [@ EXCEPT !.pc = "cp_trust", !.resolvedToken = token,
                                !.authzToken = GuardedToken(token, proc[p].username)]]
    /\ UNCHANGED <<jwtCookie, deviceStore>>

(* Trust info resolved: sends regInit, with the authorization if any. *)
RegInitCall(p) ==
    /\ proc[p].pc = "cp_trust"
    /\ proc' = [proc EXCEPT ![p] =
                  Log([@ EXCEPT !.pc = "cp_regInit", !.sentAuth = proc[p].authzToken],
                      <<"regInit">>)]
    /\ UNCHANGED <<jwtCookie, deviceStore>>

(* regInit resolved: enters invokePasskeyApi, calls the credential API. *)
RegInitResolved(p) ==
    /\ proc[p].pc = "cp_regInit"
    /\ proc' = [proc EXCEPT ![p] =
                  Log([@ EXCEPT !.pc = "cp_create", !.session = Session(p)],
                      <<"regInit:ok", "create">>)]
    /\ UNCHANGED <<jwtCookie, deviceStore>>

(* regInit rejected: createPasskey rejects; invokePasskeyApi was not entered. *)
RegInitRejected(p) ==
    /\ proc[p].pc = "cp_regInit"
    /\ proc' = [proc EXCEPT ![p] =
                  Reject(Log(@, <<"regInit:fail">>), ApiError("regInit"))]
    /\ UNCHANGED <<jwtCookie, deviceStore>>

(* navigator.credentials.create resolved: sends regComplete. *)
CreateCredentialResolved(p) ==
    /\ proc[p].pc = "cp_create"
    /\ proc' = [proc EXCEPT ![p] =
                  Log([@ EXCEPT !.pc = "cp_regComplete"],
                      <<"create:ok", "regComplete">>)]
    /\ UNCHANGED <<jwtCookie, deviceStore>>

CreateCredentialRejected(p) ==
    /\ proc[p].pc = "cp_create"
    /\ proc' = [proc EXCEPT ![p] =
                  Caught(Log(@, <<"create:fail">>), PasskeyError("create"))]
    /\ UNCHANGED <<jwtCookie, deviceStore>>

(* regComplete resolved: maps the result, stores token and device id, returns. *)
RegCompleteResolved(p) ==
    /\ proc[p].pc = "cp_regComplete"
    /\ \E d \in DeviceIds :
         LET regCompleteResponse == JwtResponse(proc[p].username, d)
             result == toAuthResult(regCompleteResponse, TRUE, FALSE)
         IN  /\ jwtCookie' = regCompleteResponse.jwtAccess
             /\ deviceStore' =
                  persistDeviceId(deviceStore,
                      DeviceIdToPersist(proc[p].deviceId, regCompleteResponse.deviceId))
             /\ proc' = [proc EXCEPT ![p] =
                           Log([@ EXCEPT !.pc = "returned", !.result = result,
                                         !.response = regCompleteResponse,
                                         !.prevDevice = deviceStore,
                                         !.writtenDevice = deviceStore'],
                               <<"regComplete:ok", "setJwtCookie", "persistDeviceId">>)]

(* The device id persisted before the outcome of regComplete is known. *)
RegCompleteRejectedAfterPersist(p) ==
    /\ proc[p].pc = "cp_regComplete"
    /\ \E d \in DeviceIds :
         deviceStore' = persistDeviceId(deviceStore, DeviceIdToPersist(proc[p].deviceId, d))
    /\ proc' = [proc EXCEPT ![p] =
                  Caught(Log(@, <<"regComplete:fail">>), ApiError("regComplete"))]
    /\ UNCHANGED jwtCookie

RegCompleteRejected(p) ==
    /\ proc[p].pc = "cp_regComplete"
    /\ proc' = [proc EXCEPT ![p] =
                  Caught(Log(@, <<"regComplete:fail">>), ApiError("regComplete"))]
    /\ UNCHANGED <<jwtCookie, deviceStore>>

-----------------------------------------------------------------------------
(* authenticateWithPasskey *)

(* The synchronous head of authenticateWithPasskey, up to its first await. *)
AuthenticateHead(r) == [r EXCEPT !.pc = "au_deviceInfo"]

(* Called directly. *)
AuthenticateWithPasskey(p, username, onSuccess, onFallback) ==
    /\ Settled(p)
    /\ proc' = [proc EXCEPT ![p] =
                  AuthenticateHead(
                      [Invocation("authenticateWithPasskey") EXCEPT
                                   !.username = username,
                                   !.onSuccess = onSuccess,
                                   !.onFallback = onFallback])]
    /\ UNCHANGED <<jwtCookie, deviceStore>>

(* authenticateWithPasskeyAutofill: sets autoFill, authenticates with "". *)
AuthenticateWithPasskeyAutofill(p, onSuccess, onFallback) ==
    /\ Settled(p)
    /\ proc' = [proc EXCEPT ![p] =
                  AuthenticateHead(
                      [Invocation("authenticateWithPasskeyAutofill") EXCEPT
                                   !.caller = "authenticateWithPasskeyAutofill",
                                   !.username = "", !.autoFill = TRUE,
                                   !.onSuccess = onSuccess,
                                   !.onFallback = onFallback])]
    /\ UNCHANGED <<jwtCookie, deviceStore>>

(* Device info resolved: builds the options, awaits the trust store. *)
AuthenticateTrust(p) ==
    /\ proc[p].pc = "au_deviceInfo"
    /\ proc' = [proc EXCEPT ![p] = [@ EXCEPT !.pc = "au_trust"]]
    /\ UNCHANGED <<jwtCookie, deviceStore>>

(* Trust info resolved: sends authInit. *)
AuthInitCall(p) ==
    /\ proc[p].pc = "au_trust"
    /\ proc' = [proc EXCEPT ![p] = Log([@ EXCEPT !.pc = "au_authInit"], <<"authInit">>)]
    /\ UNCHANGED <<jwtCookie, deviceStore>>

(* authInit resolved: the switch on the action. *)
AuthInitResolved(p) ==
    /\ proc[p].pc = "au_authInit"
    /\ \E action \in Actions :
         LET r == Log([proc[p] EXCEPT !.action = action, !.session = Session(p)],
                      <<"authInit:ok">>)
             branch == Dispatch(action)
         IN  proc' = [proc EXCEPT ![p] =
               CASE branch = "proceed" ->
                      Log([r EXCEPT !.pc = "au_get"], <<"get">>)
                 [] branch = "fallback" ->
                      IF r.onFallback
                      THEN Log([r EXCEPT !.pc = "au_onFallback"], <<"onFallback">>)
                      ELSE Return(r, toAuthResult([jwtAccess |-> Empty, userId |-> Empty],
                                                  FALSE, TRUE))
                 [] OTHER -> Reject(r, NO_LOGIN_OPTIONS_ERROR)]
    /\ UNCHANGED <<jwtCookie, deviceStore>>

AuthInitRejected(p) ==
    /\ proc[p].pc = "au_authInit"
    /\ proc' = [proc EXCEPT ![p] =
                  Reject(Log(@, <<"authInit:fail">>), ApiError("authInit"))]
    /\ UNCHANGED <<jwtCookie, deviceStore>>

(* The fallback branch storing the (empty) token of its result. *)
OnFallbackResolvedStoresToken(p) ==
    /\ proc[p].pc = "au_onFallback"
    /\ jwtCookie' = Empty
    /\ proc' = [proc EXCEPT ![p] =
                  Return(@, toAuthResult([jwtAccess |-> Empty, userId |-> Empty],
                                         FALSE, TRUE))]
    /\ UNCHANGED deviceStore

(* onFallback resolved: returns the empty fallback result. *)
OnFallbackResolved(p) ==
    /\ proc[p].pc = "au_onFallback"
    /\ proc' = [proc EXCEPT ![p] =
                  Return(@, toAuthResult([jwtAccess |-> Empty, userId |-> Empty],
                                         FALSE, TRUE))]
    /\ UNCHANGED <<jwtCookie, deviceStore>>

(* onFallback threw: outside invokePasskeyApi. *)
OnFallbackRejected(p) ==
    /\ proc[p].pc = "au_onFallback"
    /\ \E err \in CallbackThrows("onFallback") :
         proc' = [proc EXCEPT ![p] = Reject(@, err)]
    /\ UNCHANGED <<jwtCookie, deviceStore>>

(* navigator.credentials.get resolved: sends authComplete. *)
GetCredentialResolved(p) ==
    /\ proc[p].pc = "au_get"
    /\ proc' = [proc EXCEPT ![p] =
                  Log([@ EXCEPT !.pc = "au_authComplete"], <<"get:ok", "authComplete">>)]
    /\ UNCHANGED <<jwtCookie, deviceStore>>

(* The rejection of the credential call swallowed: authComplete is sent anyway. *)
GetCredentialRejectedGoesOn(p) ==
    /\ proc[p].pc = "au_get"
    /\ proc' = [proc EXCEPT ![p] =
                  Log([@ EXCEPT !.pc = "au_authComplete"], <<"get:fail", "authComplete">>)]
    /\ UNCHANGED <<jwtCookie, deviceStore>>

(* The credential call tried again after it was rejected. *)
GetCredentialRejectedRetries(p) ==
    /\ proc[p].pc = "au_get"
    /\ Count(proc[p].log, "get") < 2
    /\ proc' = [proc EXCEPT ![p] = Log(@, <<"get:fail", "get">>)]
    /\ UNCHANGED <<jwtCookie, deviceStore>>

GetCredentialRejected(p) ==
    /\ proc[p].pc = "au_get"
    /\ proc' = [proc EXCEPT ![p] =
                  Caught(Log(@, <<"get:fail">>), PasskeyError("get"))]
    /\ UNCHANGED <<jwtCookie, deviceStore>>

(* authComplete resolved: maps the result, stores token and device id, then *)
(* calls onSuccess if given, else returns.  A usernameless authentication   *)
(* is for whichever user the chosen passkey belongs to.                     *)
AuthCompleteResolved(p) ==
    /\ proc[p].pc = "au_authComplete"
    /\ \E d \in DeviceIds,
          u \in IF proc[p].username = "" THEN Usernames ELSE {proc[p].username} :
         LET authCompleteResponse == JwtResponse(u, d)
             result == toAuthResult(authCompleteResponse, TRUE, FALSE)
             r == Log([proc[p] EXCEPT !.result = result,
                                      !.response = authCompleteResponse,
                                      !.prevDevice = deviceStore,
                                      !.writtenDevice = deviceStore'],
                      <<"authComplete:ok", "setJwtCookie", "persistDeviceId">>)
         IN  /\ jwtCookie' = result.token
             /\ deviceStore' = persistDeviceId(deviceStore, authCompleteResponse.deviceId)
             /\ proc' = [proc EXCEPT ![p] =
                           IF r.onSuccess
                           THEN Log([r EXCEPT !.pc = "au_onSuccess"], <<"onSuccess">>)
                           ELSE Return(r, result)]

AuthCompleteRejected(p) ==
    /\ proc[p].pc = "au_authComplete"
    /\ proc' = [proc EXCEPT ![p] =
                  Caught(Log(@, <<"authComplete:fail">>), ApiError("authComplete"))]
    /\ UNCHANGED <<jwtCookie, deviceStore>>

(* onSuccess resolved: returns the result. *)
OnSuccessResolved(p) ==
    /\ proc[p].pc = "au_onSuccess"
    /\ proc' = [proc EXCEPT ![p] = Return(@, proc[p].result)]
    /\ UNCHANGED <<jwtCookie, deviceStore>>

(* onSuccess threw: inside invokePasskeyApi. *)
OnSuccessRejected(p) ==
    /\ proc[p].pc = "au_onSuccess"
    /\ \E err \in CallbackThrows("onSuccess") :
         proc' = [proc EXCEPT ![p] = Caught(@, err)]
    /\ UNCHANGED <<jwtCookie, deviceStore>>

-----------------------------------------------------------------------------
(* requestOtp *)

(* Called: resolves the token; authenticates if there is none, else sends   *)
(* the code request.                                                        *)
RequestOtp(p, username, authzToken, onSuccess, onFallback) ==
    /\ Settled(p)
    /\ LET token == getToken(authzToken, jwtCookie)
           r == [Invocation("requestOtp") EXCEPT !.username = username,
                             !.authzArg = authzToken, !.authzToken = token,
                             !.resolvedToken = token,
                             !.onSuccess = onSuccess, !.onFallback = onFallback]
       IN  proc' = [proc EXCEPT ![p] =
                      IF token = Empty
                      THEN AuthenticateHead([r EXCEPT !.caller = "requestOtp"])
                      ELSE Log([r EXCEPT !.pc = "otp_codeRequest", !.sentAuth = token],
                               <<"authCodeRequest">>)]
    /\ UNCHANGED <<jwtCookie, deviceStore>>

AuthCodeRequestResolved(p) ==
    /\ proc[p].pc = "otp_codeRequest"
    /\ proc' = [proc EXCEPT ![p] =
                  Log([@ EXCEPT !.pc = "returned", !.result = OtpResult],
                      <<"authCodeRequest:ok">>)]
    /\ UNCHANGED <<jwtCookie, deviceStore>>

AuthCodeRequestRejected(p) ==
    /\ proc[p].pc = "otp_codeRequest"
    /\ proc' = [proc EXCEPT ![p] =
                  Reject(Log(@, <<"authCodeRequest:fail">>), ApiError("authCodeRequest"))]
    /\ UNCHANGED <<jwtCookie, deviceStore>>

-----------------------------------------------------------------------------
(* confirmTransaction *)

(* Called: sends txInit. *)
ConfirmTransaction(p, username) ==
    /\ Settled(p)
    /\ proc' = [proc EXCEPT ![p] =
                  Log([Invocation("confirmTransaction") EXCEPT !.pc = "tx_txInit",
                                   !.username = username],
                      <<"txInit">>)]
    /\ UNCHANGED <<jwtCookie, deviceStore>>

(* txInit resolved: action is "proceed"; enters invokePasskeyApi, calls get. *)
TxInitResolved(p) ==
    /\ proc[p].pc = "tx_txInit"
    /\ proc' = [proc EXCEPT ![p] =
                  Log([@ EXCEPT !.pc = "tx_get", !.session = Session(p),
                                !.action = "proceed"],
                      <<"txInit:ok", "get">>)]
    /\ UNCHANGED <<jwtCookie, deviceStore>>

TxInitRejected(p) ==
    /\ proc[p].pc = "tx_txInit"
    /\ proc' = [proc EXCEPT ![p] =
                  Reject(Log(@, <<"txInit:fail">>), ApiError("txInit"))]
    /\ UNCHANGED <<jwtCookie, deviceStore>>

(* navigator.credentials.get resolved: sends txComplete with the session. *)
TxGetCredentialResolved(p) ==
    /\ proc[p].pc = "tx_get"
    /\ proc' = [proc EXCEPT ![p] =
                  Log([@ EXCEPT !.pc = "tx_txComplete", !.sentSession = proc[p].session],
                      <<"get:ok", "txComplete">>)]
    /\ UNCHANGED <<jwtCookie, deviceStore>>

TxGetCredentialRejected(p) ==
    /\ proc[p].pc = "tx_get"
    /\ proc' = [proc EXCEPT ![p] =
                  Caught(Log(@, <<"get:fail">>), PasskeyError("get"))]
    /\ UNCHANGED <<jwtCookie, deviceStore>>

(* The new access token of the TxComplete stored as the session token. *)
TxCompleteResolvedStoresToken(p) ==
    /\ proc[p].pc = "tx_txComplete"
    /\ jwtCookie' = TxResult(proc[p].username).token
    /\ proc' = [proc EXCEPT ![p] =
                  Log([@ EXCEPT !.pc = "returned", !.result = TxResult(proc[p].username)],
                      <<"txComplete:ok">>)]
    /\ UNCHANGED deviceStore

TxCompleteResolved(p) ==
    /\ proc[p].pc = "tx_txComplete"
    /\ proc' = [proc EXCEPT ![p] =
                  Log([@ EXCEPT !.pc = "returned", !.result = TxResult(proc[p].username)],
                      <<"txComplete:ok">>)]
    /\ UNCHANGED <<jwtCookie, deviceStore>>

TxCompleteRejected(p) ==
    /\ proc[p].pc = "tx_txComplete"
    /\ proc' = [proc EXCEPT ![p] =
                  Caught(Log(@, <<"txComplete:fail">>), ApiError("txComplete"))]
    /\ UNCHANGED <<jwtCookie, deviceStore>>

-----------------------------------------------------------------------------

(* The steps of an invocation of createPasskey in flight. *)
CreatePasskeyStep(p) ==
    \/ CreatePasskeyToken(p)
    \/ RegInitCall(p)
    \/ RegInitResolved(p)
    \/ RegInitRejected(p)
    \/ CreateCredentialResolved(p)
    \/ CreateCredentialRejected(p)
    \/ RegCompleteResolved(p)
    \/ RegCompleteRejected(p)

(* The steps of an invocation of authenticateWithPasskey in flight. *)
AuthenticateStep(p) ==
    \/ AuthenticateTrust(p)
    \/ AuthInitCall(p)
    \/ AuthInitResolved(p)
    \/ AuthInitRejected(p)
    \/ OnFallbackResolved(p)
    \/ OnFallbackRejected(p)
    \/ GetCredentialResolved(p)
    \/ GetCredentialRejected(p)
    \/ AuthCompleteResolved(p)
    \/ AuthCompleteRejected(p)
    \/ OnSuccessResolved(p)
    \/ OnSuccessRejected(p)

Next ==
    \E p \in Callers :
        \/ \E username \in Usernames, authzToken \in AuthzTokens :
             CreatePasskey(p, username, authzToken)
        \/ CreatePasskeyStep(p)
        \/ \E username \in Usernames, onSuccess \in BOOLEAN, onFallback \in BOOLEAN :
             AuthenticateWithPasskey(p, username, onSuccess, onFallback)
        \/ \E onSuccess \in BOOLEAN, onFallback \in BOOLEAN :
             AuthenticateWithPasskeyAutofill(p, onSuccess, onFallback)
        \/ AuthenticateStep(p)
        \/ \E username \in Usernames, authzToken \in AuthzTokens,
              onSuccess \in BOOLEAN, onFallback \in BOOLEAN :
             RequestOtp(p, username, authzToken, onSuccess, onFallback)
        \/ AuthCodeRequestResolved(p)
        \/ AuthCodeRequestRejected(p)
        \/ \E username \in Usernames : ConfirmTransaction(p, username)
        \/ TxInitResolved(p)
        \/ TxInitRejected(p)
        \/ TxGetCredentialResolved(p)
        \/ TxGetCredentialRejected(p)
        \/ TxCompleteResolved(p)
        \/ TxCompleteRejected(p)

Spec == Init /\ [][Next]_vars

(* Two callers on the same app id: invocations of createPasskey by the one *)
(* overlap, at every await, invocations of authenticateWithPasskey by the  *)
(* other.                                                                  *)
InitOverlap ==
    /\ jwtCookie = Empty
    /\ deviceStore = NoDeviceId
    /\ proc = [p \in {Registering, Authenticating} |-> Idle]

NextOverlap ==
    \/ \E username \in Usernames : CreatePasskey(Registering, username, Empty)
    \/ CreatePasskeyStep(Registering)
    \/ \E username \in Usernames, onSuccess \in BOOLEAN, onFallback \in BOOLEAN :
         AuthenticateWithPasskey(Authenticating, username, onSuccess, onFallback)
    \/ AuthenticateStep(Authenticating)

SpecOverlap == InitOverlap /\ [][NextOverlap]_vars

-----------------------------------------------------------------------------
FailEvents ==
    {"regInit:fail", "create:fail", "regComplete:fail", "authInit:fail", "get:fail",
     "authComplete:fail", "authCodeRequest:fail", "txInit:fail", "txComplete:fail"}

-----------------------------------------------------------------------------
(* C1: authenticateWithPasskey dispatches on the action of the authInit      *)
(* response exhaustively.  On "proceed" it runs the get-credential ceremony  *)
(* and authComplete and what it returns is the mapped authComplete response  *)
(* (its token and user id, authenticated, not a fallback).  On "crossAuth"   *)
(* or "fallback" it never starts the ceremony and what it returns is the     *)
(* empty result: empty token, empty user id, not authenticated, fallback.    *)
(* On any other action it throws NO_LOGIN_OPTIONS_ERROR and returns nothing. *)
C1_Dispatch ==
    \A p \in DOMAIN proc :
        LET r == proc[p] IN
        Dispatched(r) =>
            /\ r.action = "proceed" =>
                 /\ Has(r.log, "get")
                 /\ AuthReturned(r) =>
                      /\ Has(r.log, "get:ok") /\ Has(r.log, "authComplete:ok")
                      /\ r.authResult.token = r.response.jwtAccess
                      /\ r.authResult.userId = r.response.userId
                      /\ r.authResult.token # Empty
                      /\ r.authResult.isAuthenticated
                      /\ ~r.authResult.isFallback
            /\ r.action \in {"crossAuth", "fallback"} =>
                 /\ ~Has(r.log, "get") /\ ~Has(r.log, "authComplete")
                 /\ AuthReturned(r) =>
                      /\ r.authResult.token = Empty
                      /\ r.authResult.userId = Empty
                      /\ ~r.authResult.isAuthenticated
                      /\ r.authResult.isFallback
            /\ r.action \notin {"proceed", "crossAuth", "fallback"} =>
                 /\ r.pc = "rejected"
                 /\ r.error = NO_LOGIN_OPTIONS_ERROR
                 /\ ~AuthReturned(r) /\ r.result = NoResult
                 /\ ~Has(r.log, "get") /\ ~Has(r.log, "onFallback")

(* A proceed authentication that returned its mapped result. *)
C1_Witness ==
    \E p \in DOMAIN proc :
        /\ proc[p].op = "authenticateWithPasskey"
        /\ proc[p].action = "proceed"
        /\ proc[p].pc = "returned"
        /\ proc[p].result.isAuthenticated

-----------------------------------------------------------------------------
(* C2: the steps of createPasskey, authenticateWithPasskey and               *)
(* confirmTransaction occur in a fixed linear order.  The credential API is  *)
(* invoked only after the init call returned, the complete call is sent only *)
(* after the credential API returned, the token and the device id are        *)
(* written only after the complete call returned successfully, and after a   *)
(* failed step nothing follows but the error report.                         *)
C2_LinearOrder ==
    \A p \in DOMAIN proc :
        LET log == proc[p].log IN
        /\ Preceded(log, {"regInit:ok"}, "create")
        /\ Preceded(log, {"create:ok"}, "regComplete")
        /\ Preceded(log, {"authInit:ok", "txInit:ok"}, "get")
        /\ Preceded(log, {"get:ok"}, "authComplete")
        /\ Preceded(log, {"get:ok"}, "txComplete")
        /\ Preceded(log, {"regComplete:ok", "authComplete:ok"}, "setJwtCookie")
        /\ Preceded(log, {"regComplete:ok", "authComplete:ok"}, "persistDeviceId")
        /\ proc[p].op = "createPasskey" => ~Has(log, "get")
        /\ proc[p].op = "confirmTransaction" =>
             ~Has(log, "authInit") /\ ~Has(log, "setJwtCookie")
                /\ ~Has(log, "persistDeviceId")
        /\ \A i \in DOMAIN log :
             log[i] \in FailEvents =>
                 \A j \in (i + 1)..Len(log) : log[j] = "reportError"

(* An invocation that went through all its steps and wrote token and device id. *)
C2_Witness ==
    \E p \in DOMAIN proc :
        /\ proc[p].op = "createPasskey"
        /\ proc[p].pc = "returned"
        /\ Has(proc[p].log, "persistDeviceId")

-----------------------------------------------------------------------------
(* C3: invokePasskeyApi is catch-report-rethrow.  If the wrapped function    *)
(* succeeds nothing is reported and its result is what is returned; if it    *)
(* throws, the invocation rejects with the very value thrown, and            *)
(* reportError was called exactly once, with the session of the operation    *)
(* and that error, when the value is an Error, and not at all otherwise.     *)
C3_CatchReportRethrow ==
    \A p \in DOMAIN proc :
        LET r == proc[p] IN
        /\ r.pc = "returned" => r.reports = << >> /\ r.thrown = NoError
        /\ r.pc = "returned" /\ r.op = "createPasskey" =>
             r.result.token = r.response.jwtAccess /\ r.result.userId = r.response.userId
        /\ r.thrown # NoError =>
             /\ r.pc = "rejected"
             /\ r.error = r.thrown
             /\ r.session = Session(p)
             /\ r.reports = IF r.thrown.isError
                            THEN <<[session |-> Session(p), error |-> r.thrown]>>
                            ELSE << >>
             /\ Count(r.log, "reportError") = Len(r.reports)

(* The wrapped function threw a value that is not an Error. *)
C3_Witness ==
    \E p \in DOMAIN proc :
        /\ proc[p].pc = "rejected"
        /\ proc[p].thrown # NoError
        /\ ~proc[p].thrown.isError

-----------------------------------------------------------------------------
(* Where an error was thrown: inside the function wrapped by                *)
(* invokePasskeyApi, or outside of it.                                      *)
InsideWrapper == {"create", "regComplete", "get", "authComplete", "onSuccess", "txComplete"}

OutsideWrapper == {"regInit", "authInit", "txInit", "dispatch", "onFallback", "authCodeRequest"}

(* C4, as claimed: whenever an invocation fails with an Error at any of its  *)
(* steps, init REST call included, that error is reported exactly once and   *)
(* rethrown.                                                                 *)
C4_Original ==
    \A p \in DOMAIN proc :
        LET r == proc[p] IN
        r.pc = "rejected" /\ r.error.isError =>
            /\ Len(r.reports) = 1
            /\ r.reports[1].error = r.error

(* C4, amended: an invocation that fails rejects with the error of the step  *)
(* that failed.  An Error thrown by a step inside the wrapper (credential    *)
(* call, complete REST call, onSuccess callback) is reported exactly once,   *)
(* with the session of the init response; an error of a step outside of it   *)
(* (init REST call, unknown action, onFallback callback, code request) is    *)
(* rethrown without any report.                                              *)
C4_WrapperCoversStepsAfterInit ==
    \A p \in DOMAIN proc :
        LET r == proc[p] IN
        r.pc = "rejected" =>
            /\ r.error # NoError
            /\ r.error.at \in InsideWrapper \cup OutsideWrapper
            /\ Has(r.log, "regInit:fail") => r.error = ApiError("regInit")
            /\ Has(r.log, "authInit:fail") => r.error = ApiError("authInit")
            /\ Has(r.log, "txInit:fail") => r.error = ApiError("txInit")
            /\ Has(r.log, "create:fail") => r.error = PasskeyError("create")
            /\ Has(r.log, "get:fail") => r.error = PasskeyError("get")
            /\ Has(r.log, "regComplete:fail") => r.error = ApiError("regComplete")
            /\ Has(r.log, "authComplete:fail") => r.error = ApiError("authComplete")
            /\ Has(r.log, "txComplete:fail") => r.error = ApiError("txComplete")
            /\ r.error.at \in InsideWrapper /\ r.error.isError =>
                 r.reports = <<[session |-> Session(p), error |-> r.error]>>
            /\ r.error.at \in OutsideWrapper => r.reports = << >>

(* The complete REST call failed and its error was reported once. *)
C4_Witness ==
    \E p \in DOMAIN proc :
        /\ proc[p].pc = "rejected"
        /\ proc[p].error = ApiError("authComplete")
        /\ Len(proc[p].reports) = 1

-----------------------------------------------------------------------------
RestOperations ==
    {"regInit", "regComplete", "authInit", "authComplete", "authCodeRequest",
     "txInit", "txComplete"}

(* C5: there is no retry.  Within one invocation of a public operation each  *)
(* backend REST operation is called at most once and the browser credential  *)
(* API (create or get) is called at most once, whatever the outcome.         *)
C5_NoRetry ==
    \A p \in DOMAIN proc :
        LET log == proc[p].log IN
        /\ \A e \in RestOperations : Count(log, e) <= 1
        /\ Count(log, "create") + Count(log, "get") <= 1

(* requestOtp that authenticated and requested the code: four calls, once each. *)
C5_Witness ==
    \E p \in DOMAIN proc :
        LET log == proc[p].log IN
        /\ proc[p].op = "requestOtp"
        /\ proc[p].pc = "returned"
        /\ Count(log, "authInit") = 1 /\ Count(log, "get") = 1
        /\ Count(log, "authComplete") = 1 /\ Count(log, "authCodeRequest") = 1

-----------------------------------------------------------------------------
(* C6, as claimed: requestOtp always sends authAuthCodeRequest with a        *)
(* non-empty authorization token; a stored or passed token is used without   *)
(* authenticating, and otherwise the token that authentication produced.     *)
C6_CodeRequestAuthorized ==
    \A p \in DOMAIN proc :
        LET r == proc[p] IN
        Has(r.log, "authCodeRequest") =>
            /\ r.sentAuth # Empty
            /\ r.resolvedToken # Empty =>
                 r.sentAuth = r.resolvedToken /\ ~Has(r.log, "authInit")
            /\ r.resolvedToken = Empty =>
                 Has(r.log, "authInit") /\ r.sentAuth = r.authResult.token

-----------------------------------------------------------------------------
(* C7: createPasskey guards against username mismatch.  regInit carries an   *)
(* authorization token if and only if the token the session resolved (the    *)
(* passed authzToken, else the stored one) is non-empty and its username     *)
(* claim equals the username being registered; then it carries that token.   *)
(* On a mismatch the token is dropped and regInit is sent all the same.      *)
C7_UsernameGuard ==
    \A p \in DOMAIN proc :
        LET r == proc[p] IN
        r.op = "createPasskey" =>
            /\ r.pc # "cp_deviceInfo" =>
                 /\ r.resolvedToken =
                      IF r.authzArg # Empty THEN r.authzArg ELSE r.stored.token
                 /\ r.pc = "cp_trust" \/ Has(r.log, "regInit")
            /\ Has(r.log, "regInit") =>
                 /\ r.sentAuth # Empty <=>
                      /\ r.resolvedToken # Empty
                      /\ parseJwt(r.resolvedToken).username = r.username
                 /\ r.sentAuth # Empty => r.sentAuth = r.resolvedToken

(* A token for another user was resolved, and regInit went out without it. *)
C7_Witness ==
    \E p \in DOMAIN proc :
        LET r == proc[p] IN
        /\ r.op = "createPasskey"
        /\ Has(r.log, "regInit:ok")
        /\ r.resolvedToken # Empty
        /\ parseJwt(r.resolvedToken).username # r.username
        /\ r.sentAuth = Empty

-----------------------------------------------------------------------------
(* C8: on the crossAuth/fallback outcome authenticateWithPasskey has no      *)
(* persistent effect: the credential API and authComplete are never called,  *)
(* the stored token and device id are as the invocation found them,          *)
(* onSuccess is never called, and onFallback is called exactly once if the   *)
(* caller provided it and never otherwise.  On the proceed outcome           *)
(* onFallback is never called, and onSuccess is called at most once, only    *)
(* if provided and only after token and device id have been stored.          *)
C8_FallbackHasNoEffect ==
    \A p \in DOMAIN proc :
        LET r == proc[p] IN
        Dispatched(r) =>
            /\ r.action \in {"crossAuth", "fallback"} =>
                 /\ ~Has(r.log, "get") /\ ~Has(r.log, "authComplete")
                 /\ ~Has(r.log, "setJwtCookie") /\ ~Has(r.log, "persistDeviceId")
                 /\ jwtCookie = r.stored.token
                 /\ deviceStore = r.stored.deviceId
                 /\ ~Has(r.log, "onSuccess")
                 /\ Count(r.log, "onFallback") = IF r.onFallback THEN 1 ELSE 0
            /\ r.action = "proceed" =>
                 /\ ~Has(r.log, "onFallback")
                 /\ Count(r.log, "onSuccess") <= 1
                 /\ Has(r.log, "onSuccess") =>
                      /\ r.onSuccess
                      /\ Preceded(r.log, {"setJwtCookie"}, "onSuccess")
                      /\ Preceded(r.log, {"persistDeviceId"}, "onSuccess")
                      /\ jwtCookie = r.response.jwtAccess
                      /\ deviceStore = r.response.deviceId
                 /\ AuthReturned(r) /\ r.onSuccess => Count(r.log, "onSuccess") = 1

(* A fallback outcome, with a token stored, whose onFallback was called and *)
(* which returned.                                                          *)
C8_Witness ==
    \E p \in DOMAIN proc :
        LET r == proc[p] IN
        /\ r.op = "authenticateWithPasskey"
        /\ r.action \in {"crossAuth", "fallback"}
        /\ r.pc = "returned"
        /\ Count(r.log, "onFallback") = 1
        /\ jwtCookie # Empty

-----------------------------------------------------------------------------
AuthenticationOps ==
    {"createPasskey", "authenticateWithPasskey", "authenticateWithPasskeyAutofill"}

Wrote(r) == Has(r.log, "setJwtCookie") \/ Has(r.log, "persistDeviceId")

(* C9, as claimed: an invocation of createPasskey or authenticateWithPasskey *)
(* that rejects has not changed the stored token or the stored device id.    *)
C9_Original ==
    \A p \in DOMAIN proc :
        LET r == proc[p] IN
        r.op \in {"createPasskey", "authenticateWithPasskey"} /\ r.pc = "rejected" =>
            /\ ~Wrote(r)
            /\ jwtCookie = r.stored.token
            /\ deviceStore = r.stored.deviceId

(* C9, amended: token and device id are written only after the complete     *)
(* REST call returned successfully.  An invocation that rejects at or before *)
(* that call (init, credential or complete failure, unknown action,          *)
(* onFallback throwing) leaves both as it found them; one that returns       *)
(* having written returns an authenticated result; an authenticateWith-      *)
(* Passkey whose onSuccess callback throws rejects with both written.        *)
C9_WrittenOnlyAfterComplete ==
    \A p \in DOMAIN proc :
        LET r == proc[p] IN
        r.op \in AuthenticationOps =>
            /\ Wrote(r) =>
                 Has(r.log, "regComplete:ok") \/ Has(r.log, "authComplete:ok")
            /\ ~Wrote(r) =>
                 jwtCookie = r.stored.token /\ deviceStore = r.stored.deviceId
            /\ r.pc = "rejected" /\ r.error.at # "onSuccess" => ~Wrote(r)
            /\ r.pc = "rejected" /\ r.error.at = "onSuccess" =>
                 /\ Has(r.log, "setJwtCookie") /\ Has(r.log, "persistDeviceId")
                 /\ jwtCookie = r.response.jwtAccess
            /\ r.pc = "returned" /\ Wrote(r) =>
                 r.result.isAuthenticated /\ r.result.token = jwtCookie

(* onSuccess threw after token and device id were stored. *)
C9_Witness ==
    \E p \in DOMAIN proc :
        LET r == proc[p] IN
        /\ r.op = "authenticateWithPasskey"
        /\ r.pc = "rejected"
        /\ r.error.at = "onSuccess"
        /\ Wrote(r)
        /\ jwtCookie # r.stored.token

-----------------------------------------------------------------------------
(* C10, as claimed: createPasskey never replaces an existing device id.      *)
(* After its write the stored device id is the one stored immediately before *)
(* the write if there was one, and the one regComplete returned only when    *)
(* none was stored, under every interleaving with other invocations.         *)
C10_KeepsExistingDeviceId ==
    \A p \in DOMAIN proc :
        LET r == proc[p] IN
        r.op = "createPasskey" /\ Has(r.log, "persistDeviceId") =>
            r.writtenDevice =
                IF r.prevDevice # NoDeviceId THEN r.prevDevice ELSE r.response.deviceId

-----------------------------------------------------------------------------
(* C11: confirmTransaction always takes the proceed path and leaves the      *)
(* persisted state unchanged.  It never branches to the fallback, it never   *)
(* writes the session token cookie or the device id, whether it succeeds or  *)
(* fails, and the session sent with txComplete is exactly the session        *)
(* txInit returned to the same invocation, which is also the session of any  *)
(* error report it makes.                                                    *)
C11_ConfirmTransactionFrame ==
    \A p \in DOMAIN proc :
        LET r == proc[p] IN
        r.op = "confirmTransaction" =>
            /\ Has(r.log, "txInit:ok") =>
                 /\ r.action = "proceed"
                 /\ Has(r.log, "get")
                 /\ r.session = Session(p)
            /\ ~Has(r.log, "authInit") /\ ~Has(r.log, "onFallback")
            /\ ~Has(r.log, "onSuccess")
            /\ ~r.result.isFallback
            /\ r.pc = "returned" => r.result.kind = "tx" /\ Has(r.log, "txComplete:ok")
            /\ ~Has(r.log, "setJwtCookie") /\ ~Has(r.log, "persistDeviceId")
            /\ jwtCookie = r.stored.token
            /\ deviceStore = r.stored.deviceId
            /\ Has(r.log, "txComplete") =>
                 /\ Has(r.log, "txInit:ok")
                 /\ r.sentSession = r.session
            /\ ~Has(r.log, "txComplete") => r.sentSession = << >>
            /\ \A i \in DOMAIN r.reports : r.reports[i].session = r.session
            /\ r.reports # << >> => Has(r.log, "txInit:ok")

(* A transaction confirmed for one user while the token of another is      *)
(* stored: the new access token of the result did not replace it.          *)
C11_Witness ==
    \E p \in DOMAIN proc :
        LET r == proc[p] IN
        /\ r.op = "confirmTransaction"
        /\ r.pc = "returned"
        /\ r.sentSession = Session(p)
        /\ jwtCookie # Empty
        /\ r.result.token # jwtCookie
        /\ deviceStore # NoDeviceId

====
